---- MODULE Spec2Model ----
(***************************************************************************)
(* Model of redhat_ldap_mcp.core.ldap_connector.LDAPConnector: the session *)
(* manager (connect / disconnect / context manager) and the paginated      *)
(* search primitive, run by a small set of threads sharing one connector.  *)
(***************************************************************************)
EXTENDS Integers, Sequences, FiniteSets, TLC

\* ------------------------------------------------------------------ bounds
MaxRetriesBound == 2      \* max_retries ranges over 1..MaxRetriesBound
MaxPageSize == 2          \* page_size ranges over 1..MaxPageSize
MaxResultsBound == 2      \* max_results ranges over 1..MaxResultsBound
MaxSizeLimit == 3         \* size_limit argument ranges over 0..MaxSizeLimit
MaxDir == 3               \* records matching one search: 0..MaxDir
MaxOps == 3               \* calls the single caller of Spec may start
MaxOpsSearch == 2         \* calls the single caller of SpecSearch may start
MaxOpsConc == 1           \* calls each of the concurrent callers of SpecConc may start
MaxQueryLen == 2           \* characters of a free-text query or identifier: 0..MaxQueryLen
MaxValues == 2            \* values of one attribute of a record: 1..MaxValues
MaxPersons == 3           \* persons in the directory
MaxDepth == 2             \* max_depth argument of build_organization_chart: 0..MaxDepth
MaxGroups == 2             \* groups in the directory

Threads == {1, 2}

None == 0                 \* Python None for a connection reference or a lock holder
NoCookie == <<>>          \* no paging cookie (None or empty)

\* ------------------------------------------------------------------ state
VARIABLES
    cfg,          \* ldap_config / performance_config of the connector
    connection,   \* self._connection: None or a connection id
    lock,         \* self._lock: None (free) or the holding thread
    bound,        \* ids of the Connection objects whose .bound is True
    resp,         \* per Connection object: entries / paging cookie of its last response
    th,           \* per thread: position, locals and call records
    tool          \* the call of a tool-layer function under way, its input and output

vars == <<cfg, connection, lock, bound, resp, th, tool>>

\* ------------------------------------------------------------ configuration
AuthMethods == {"anonymous", "simple", "sasl"}

Configs ==
    [max_retries : 1..MaxRetriesBound,
     page_size : 1..MaxPageSize,
     max_results : 1..MaxResultsBound,
     auth_method : AuthMethods,
     has_credentials : BOOLEAN]   \* bind_dn and password are both set

\* ------------------------------------------------- _create_connection et al.
\* Result of _create_connection: "ok" (a Connection object is built) or the
\* exception it raises.  "socket" is LDAPSocketOpenError from Connection(...).
CreateOutcomes(c) ==
    IF c.auth_method = "anonymous" THEN {"ok", "socket"}
    ELSE IF c.auth_method = "simple" THEN
        IF ~c.has_credentials THEN {"ValueError"} ELSE {"ok", "socket"}
    ELSE IF c.auth_method = "sasl" THEN {"NotImplementedError"}
    ELSE {"ValueError"}

ConfigErrors == {"ValueError", "NotImplementedError"}

\* ------------------------------------------------------- _test_connection
BindOutcomes == {"ok", "false", "raise"}
\* One probe search: success with entries, success without entries,
\* search() returned False, search() raised.
ProbeOutcomes == {"records", "empty", "fail", "error"}

test_strategies ==
    << [name |-> "Root DSE", search_scope |-> "BASE",
        search_filter |-> "(objectClass=*)", search_base |-> "base_dn"],
       [name |-> "Base DN subtree", search_scope |-> "SUBTREE",
        search_filter |-> "(objectClass=*)", search_base |-> "base_dn"],
       [name |-> "Person search", search_scope |-> "SUBTREE",
        search_filter |-> "(objectClass=person)", search_base |-> "base_dn"] >>

\* Acceptance on "if success:" alone, without "and connection.entries".
StrategyAcceptsAnySuccess(o) == o \in {"records", "empty"}

\* The "if success and connection.entries" test of one strategy.
StrategyAccepts(o) == o = "records"

RECURSIVE RunStrategies(_, _, _)
RunStrategies(outs, i, log) ==
    IF i > Len(test_strategies) THEN [ok |-> FALSE, log |-> log]
    ELSE LET l2 == Append(log, [strategy |-> test_strategies[i], outcome |-> outs[i]])
         IN IF StrategyAccepts(outs[i]) THEN [ok |-> TRUE, log |-> l2]
            ELSE RunStrategies(outs, i + 1, l2)

\* _test_connection(connection): bind, then the probe strategies in order.
\* bindOut and outs are what the directory answers.
TestConnection(bindOut, outs) ==
    IF bindOut # "ok"
    THEN [ok |-> FALSE, log |-> <<>>,
          cause |-> IF bindOut = "false" THEN "bind_failed" ELSE "bind_error"]
    ELSE LET r == RunStrategies(outs, 1, <<>>)
         IN [ok |-> r.ok, log |-> r.log,
             cause |-> IF r.ok THEN "none" ELSE "probe_failed"]

\* What the call record keeps of a probe log: the strategies tried, in order,
\* the answer to the last one, and whether a strategy that returned a record
\* was passed over.
NoProbes == [tried |-> <<>>, last |-> "none", passedOver |-> FALSE]

Digest(log) ==
    IF log = <<>> THEN NoProbes
    ELSE [tried |-> [i \in 1..Len(log) |-> log[i].strategy],
          last |-> log[Len(log)].outcome,
          passedOver |-> \E i \in 1..(Len(log) - 1) : log[i].outcome = "records"]

\* A retry delay after every attempt, the last one included.
ShouldSleepAlways(attempt, max_retries) == attempt < max_retries

\* "if attempt < self.performance_config.max_retries - 1" before time.sleep.
ShouldSleep(attempt, max_retries) == attempt < max_retries - 1

\* A "with" block that does not wait for the lock.
CanAcquireUnlocked(l) == TRUE

\* Lock.acquire(): the caller proceeds only when nobody holds the lock.
CanAcquire(l) == l = None

\* ------------------------------------------------------------- thread state
NoResp == [entries |-> <<>>, cookie |-> NoCookie]

\* Connection objects that can be referenced at once: self._connection and one
\* local or returned reference per thread.
ConnIds == 1..(Cardinality(Threads) + 1)

\* Locals and call records of one connect() call; live while the lock is held.
FreshConnect ==
    [attempt |-> 0, last_error |-> "none", sleeps |-> 0, binds |-> 0,
     probes |-> NoProbes, lastCause |-> "none", accepted |-> FALSE,
     fast |-> FALSE, raising |-> FALSE,
     heldAtCheck |-> None, replacedBound |-> FALSE]

\* Locals of one search() call.
FreshSearch == [entries |-> <<>>, cookie |-> NoCookie]

\* Locals of one disconnect() call; live while the lock is held.
FreshDisconnect ==
    [hadSession |-> None, unbound |-> FALSE, unbindRaised |-> FALSE]

\* What the last finished call gave its caller.
\* pages counts the page requests of a search, rejected says one was refused.
FreshResult ==
    [outcome |-> "none", error |-> "none", ret |-> None, result |-> <<>>,
     pages |-> 0, rejected |-> FALSE]

\* A thread that may start ops calls; its searches ask for size_limit sl on a
\* query that n directory records match.
InitThread(ops, sl, n) ==
    [pc |-> "idle", op |-> "none", opsLeft |-> ops, conn |-> None,
     size_limit |-> sl, dirN |-> n,
     scope |-> "out", scopeDisc |-> 0, scopeRaised |-> FALSE]
    @@ FreshConnect @@ FreshSearch @@ FreshDisconnect @@ FreshResult

InitConnector ==
    /\ connection = None
    /\ lock = None
    /\ bound = {}
    /\ resp = [c \in ConnIds |-> NoResp]

\* No tool-layer call: the callers use the connector directly.
NoTool == [op |-> "none"]

\* Spec: one caller, every retry bound and authentication setting; its
\* searches page through a fixed query.
LifecycleConfigs ==
    {c \in Configs : c.page_size = 1 /\ c.max_results = MaxResultsBound}

Init ==
    /\ cfg \in LifecycleConfigs
    /\ InitConnector
    /\ tool = NoTool
    /\ th = [t \in Threads |-> IF t = 1 THEN InitThread(MaxOps, 0, MaxResultsBound)
                             ELSE InitThread(0, 0, 0)]

\* SpecSearch: one caller on a directory that accepts the bind, every page
\* size, result cap, size_limit argument and number of matching records.
SearchConfigs ==
    {c \in Configs : /\ c.auth_method = "anonymous" /\ c.has_credentials
                     /\ c.max_retries = 1}

InitSearch ==
    /\ cfg \in SearchConfigs
    /\ InitConnector
    /\ tool = NoTool
    /\ \E sl \in 0..MaxSizeLimit, n \in 0..MaxDir :
        th = [t \in Threads |-> IF t = 1 THEN InitThread(MaxOpsSearch, sl, n)
                                ELSE InitThread(0, 0, 0)]

\* SpecConc: two concurrent callers of one connector.
ConcConfigs ==
    {c \in Configs : /\ c.auth_method = "anonymous" /\ c.has_credentials
                     /\ c.page_size = 1 /\ c.max_results = MaxResultsBound}

InitConc ==
    /\ cfg \in ConcConfigs
    /\ InitConnector
    /\ tool = NoTool
    /\ th = [t \in Threads |-> InitThread(MaxOpsConc, 0, MaxResultsBound)]

\* Overwrite the fields of record r that d names.
Upd(r, d) == [f \in DOMAIN r |-> IF f \in DOMAIN d THEN d[f] ELSE r[f]]

SetTh(t, d) == th' = [th EXCEPT ![t] = Upd(th[t], d)]

\* The Connection objects something still refers to.
Live(cn, ths) ==
    ({cn} \cup {ths[t].conn : t \in Threads} \cup {ths[t].ret : t \in Threads})
    \ {None}

\* End of a step that leaves responses r and bound flags b: a Connection object
\* nothing refers to any more is reclaimed, its state is gone.
Commit(r, b) ==
    /\ resp' = [c \in ConnIds |-> IF c \in Live(connection', th') THEN r[c] ELSE NoResp]
    /\ bound' = b \cap Live(connection', th')

\* Id of a newly built Connection object.
NewConn == CHOOSE c \in ConnIds \ Live(connection, th) :
              \A d \in ConnIds \ Live(connection, th) : c <= d

\* A thread may start a call: it is between calls, has budget left, and an
\* exception raised inside a "with connector:" body has not yet left the body.
MayCall(t) ==
    /\ th[t].pc = "idle"
    /\ th[t].opsLeft > 0
    /\ th[t].scope = "in" => th[t].outcome \in {"none", "ok"}

StartCall(t, d) ==
    SetTh(t, d @@ [opsLeft |-> th[t].opsLeft - 1,
                   scope |-> IF th[t].scope = "left" THEN "out" ELSE th[t].scope]
               @@ FreshResult)

\* ----------------------------------------------------------------- connect
\* A caller starts connect().
CallConnect(t) ==
    /\ MayCall(t)
    /\ StartCall(t, [pc |-> "connect_wait", op |-> "connect"])
    /\ UNCHANGED <<tool, cfg, connection, lock>>
    /\ Commit(resp, bound)

\* connect() without the early return.
AlreadyBoundIgnored(cn, b) == FALSE

\* "if self._connection and self._connection.bound"
AlreadyBound(cn, b) == cn # None /\ cn \in b

\* "with self._lock:" and the already-bound check.  heldAtCheck records the
\* bound session the connector holds when the call takes the lock.
ConnectBegin(t) ==
    /\ th[t].pc = "connect_wait"
    /\ CanAcquire(lock)
    /\ lock' = t
    /\ LET held == IF connection # None /\ connection \in bound
                   THEN connection ELSE None
       IN IF AlreadyBound(connection, bound)
          THEN SetTh(t, [pc |-> "connect_done", conn |-> connection, fast |-> TRUE,
                         heldAtCheck |-> held] @@ FreshConnect)
          ELSE SetTh(t, [pc |-> "connecting", heldAtCheck |-> held] @@ FreshConnect)
    /\ UNCHANGED <<tool, cfg, connection>>
    /\ Commit(resp, bound)

\* One iteration of "for attempt in range(max_retries)" that does not return:
\* the error, if one was raised, is kept in last_error; then the retry delay.
AttemptFails(t, cause, isError, didBind, log) ==
    /\ SetTh(t, [attempt |-> th[t].attempt + 1,
                 last_error |-> IF isError THEN cause ELSE th[t].last_error,
                 lastCause |-> cause, probes |-> Digest(log),
                 binds |-> th[t].binds + (IF didBind THEN 1 ELSE 0),
                 sleeps |-> th[t].sleeps
                    + (IF ShouldSleep(th[t].attempt, cfg.max_retries) THEN 1 ELSE 0)])
    /\ UNCHANGED connection
    /\ Commit(resp, bound)

\* "self._connection = connection; return connection".  Only an accepted
\* Connection object gets an id: the object of a failed attempt is dropped by
\* the code and never referenced again.
AttemptAccepted(t, log) ==
    LET c == NewConn
    IN /\ connection' = c
       /\ SetTh(t, [pc |-> "connect_done", conn |-> c, accepted |-> TRUE,
                    probes |-> Digest(log), lastCause |-> "none",
                    replacedBound |-> (connection # None /\ connection \in bound),
                    binds |-> th[t].binds + 1])
       /\ Commit([resp EXCEPT ![c] = NoResp], bound \cup {c})

ConnectAttempt(t) ==
    /\ th[t].pc = "connecting"
    /\ th[t].attempt < cfg.max_retries
    /\ \E create \in CreateOutcomes(cfg) :
        IF create # "ok"
        THEN AttemptFails(t, create, TRUE, FALSE, <<>>)
        ELSE \E bindOut \in BindOutcomes :
             IF bindOut # "ok"
             THEN LET tc == TestConnection(bindOut, <<>>)
                  IN AttemptFails(t, tc.cause, FALSE, TRUE, tc.log)
             ELSE \E outs \in [1..Len(test_strategies) -> ProbeOutcomes] :
                  LET tc == TestConnection(bindOut, outs)
                  IN IF tc.ok THEN AttemptAccepted(t, tc.log)
                     ELSE AttemptFails(t, tc.cause, FALSE, TRUE, tc.log)
    /\ UNCHANGED <<tool, cfg, lock>>

\* "All attempts failed": raise LDAPException(error_msg [+ last_error]).
ConnectExhausted(t) ==
    /\ th[t].pc = "connecting"
    /\ th[t].attempt >= cfg.max_retries
    /\ SetTh(t, [pc |-> "connect_done", raising |-> TRUE])
    /\ UNCHANGED <<tool, cfg, connection, lock>>
    /\ Commit(resp, bound)

\* connect() leaves the "with self._lock:" block, returning or raising, and the
\* caller (connect's own caller, or search) goes on.
ConnectReturn(t) ==
    /\ th[t].pc = "connect_done"
    /\ lock' = None
    /\ IF th[t].raising
       THEN SetTh(t, [pc |-> "idle", outcome |-> "ConnectionError",
                      error |-> th[t].last_error, conn |-> None]
                     @@ FreshConnect @@ FreshSearch)
       ELSE IF th[t].op = "search"
       THEN SetTh(t, [pc |-> "search_request", entries |-> <<>>, cookie |-> NoCookie]
                     @@ FreshConnect)
       ELSE SetTh(t, [pc |-> "idle", outcome |-> "ok", ret |-> th[t].conn,
                      conn |-> None]
                     @@ FreshConnect)
    /\ UNCHANGED <<tool, cfg, connection>>
    /\ Commit(resp, bound)

\* The directory or the network drops the stored session: .bound turns False.
Drop ==
    /\ connection # None
    /\ connection \in bound
    /\ bound' = bound \ {connection}
    /\ UNCHANGED <<tool, cfg, connection, lock, resp, th>>

\* -------------------------------------------------------------- disconnect
CallDisconnect(t) ==
    /\ MayCall(t)
    /\ th[t].scope # "in"
    /\ StartCall(t, [pc |-> "disc_wait", op |-> "disconnect"])
    /\ UNCHANGED <<tool, cfg, connection, lock>>
    /\ Commit(resp, bound)

\* "with self._lock:" of disconnect().
DisconnectBegin(t) ==
    /\ th[t].pc = "disc_wait"
    /\ CanAcquire(lock)
    /\ lock' = t
    /\ SetTh(t, [pc |-> "disconnecting"] @@ FreshDisconnect)
    /\ UNCHANGED <<tool, cfg, connection>>
    /\ Commit(resp, bound)

\* unbind() called bare: an exception escapes before the reference is cleared.
UnbindUnguarded(held, raised) ==
    [connection |-> IF raised THEN held ELSE None, escapes |-> raised]

\* What "try: unbind() except Exception: log finally: self._connection = None"
\* leaves: the stored reference, and whether the exception escapes.
UnbindGuarded(held, raised) == [connection |-> None, escapes |-> FALSE]

\* "if self._connection: try unbind ... finally self._connection = None".
\* An unbind() that raises may or may not have closed the session.
DisconnectBody(t) ==
    /\ th[t].pc = "disconnecting"
    /\ IF connection # None
       THEN \E raised \in BOOLEAN, closed \in BOOLEAN :
            LET u == UnbindGuarded(connection, raised)
            IN /\ ~raised => closed
               /\ connection' = u.connection
               /\ SetTh(t, [pc |-> "disc_done", hadSession |-> connection,
                            unbound |-> TRUE, unbindRaised |-> raised,
                            raising |-> u.escapes])
               /\ Commit(resp, IF closed THEN bound \ {connection} ELSE bound)
       ELSE /\ SetTh(t, [pc |-> "disc_done"])
            /\ UNCHANGED <<connection, bound, resp>>
    /\ UNCHANGED <<tool, cfg, lock>>

\* disconnect() leaves the "with self._lock:" block; when it was called by
\* __exit__ the "with connector:" scope is left.
DisconnectReturn(t) ==
    /\ th[t].pc = "disc_done"
    /\ lock' = None
    /\ SetTh(t, [pc |-> "idle", raising |-> FALSE,
                 outcome |-> IF th[t].raising THEN "UnbindError" ELSE "ok",
                 scope |-> IF th[t].op = "exit" THEN "left" ELSE th[t].scope]
                @@ FreshDisconnect)
    /\ UNCHANGED <<tool, cfg, connection>>
    /\ Commit(resp, bound)

\* --------------------------------------------------------- context manager
\* __enter__: returns self; nothing is connected yet.
ScopeEnter(t) ==
    /\ th[t].pc = "idle"
    /\ th[t].scope # "in"
    /\ th[t].opsLeft > 0
    /\ SetTh(t, [scope |-> "in", scopeDisc |-> 0, scopeRaised |-> FALSE]
                @@ FreshResult)
    /\ UNCHANGED <<tool, cfg, connection, lock>>
    /\ Commit(resp, bound)

\* An __exit__ that does not disconnect.
ExitCallsNothing == <<>>

\* The calls __exit__ makes: "self.disconnect()".
ExitCalls == <<"disconnect">>

\* The body ends, normally or because a call in it raised: __exit__ runs.
ScopeExit(t) ==
    /\ th[t].pc = "idle"
    /\ th[t].scope = "in"
    /\ LET raisedInBody == th[t].outcome \notin {"none", "ok"}
       IN IF ExitCalls # <<>>
          THEN SetTh(t, [pc |-> "disc_wait", op |-> "exit", scope |-> "exiting",
                         scopeDisc |-> th[t].scopeDisc + Len(ExitCalls),
                         scopeRaised |-> raisedInBody] @@ FreshResult)
          ELSE SetTh(t, [scope |-> "left", op |-> "exit",
                         scopeRaised |-> raisedInBody] @@ FreshResult)
    /\ UNCHANGED <<tool, cfg, connection, lock>>
    /\ Commit(resp, bound)

\* ------------------------------------------------------------------ search
Min(a, b) == IF a < b THEN a ELSE b

\* "size_limit if size_limit > 0 else self.performance_config.max_results"
EffectiveLimit(size_limit, c) ==
    IF size_limit > 0 THEN size_limit ELSE c.max_results

\* "min(self.performance_config.page_size, effective_limit)"
PagedSize(size_limit, c) == Min(c.page_size, EffectiveLimit(size_limit, c))

\* The limit test with ">" for ">=".
LimitReachedStrict(n, limit) == n > limit

\* "if len(entries) >= effective_limit" after an append.
LimitReached(n, limit) == n >= limit

\* "for entry in connection.entries: entries.append(...); if len(entries) >=
\* effective_limit: return entries[:effective_limit]".
RECURSIVE ProcessEntries(_, _, _)
ProcessEntries(acc, page, limit) ==
    IF page = <<>> THEN [returned |-> FALSE, entries |-> acc]
    ELSE LET a2 == Append(acc, Head(page))
         IN IF LimitReached(Len(a2), limit)
            THEN [returned |-> TRUE, entries |-> SubSeq(a2, 1, Min(limit, Len(a2)))]
            ELSE ProcessEntries(a2, Tail(page), limit)

\* A caller starts search(..., size_limit) on its query.
CallSearch(t) ==
    /\ MayCall(t)
    /\ StartCall(t, [pc |-> "connect_wait", op |-> "search",
                     entries |-> <<>>, cookie |-> NoCookie])
    /\ UNCHANGED <<tool, cfg, connection, lock>>
    /\ Commit(resp, bound)

\* search() ends by raising: nothing is returned.
SearchRaises(t) ==
    [pc |-> "idle", outcome |-> "SearchError", result |-> <<>>, conn |-> None]
    @@ FreshSearch

\* search() ends by returning the list es.
SearchReturns(t, es) ==
    [pc |-> "idle", outcome |-> "ok", result |-> es, conn |-> None]
    @@ FreshSearch

\* A search that answers a rejected page request with what it has so far.
OnRequestFailureReturnPartial(t) == SearchReturns(t, th[t].entries)

\* What search() does when a page request is rejected.
OnRequestFailure(t) == SearchRaises(t)

\* The directory's answer to a paged request: the next records of the query
\* the cursor belongs to (a request without cursor opens the requester's own
\* query), at most paged_size of them, and the cursor for the rest.
Pages(t, cookie, paged_size) ==
    LET owner == IF cookie = NoCookie THEN t ELSE cookie[1]
        pos == IF cookie = NoCookie THEN 0 ELSE cookie[2]
        left == th[owner].dirN - pos
        sizes == IF left <= 0 THEN {0} ELSE 1..Min(paged_size, left)
    IN { [entries |-> [i \in 1..k |-> <<owner, pos + i>>],
          cookie |-> IF pos + k < th[owner].dirN THEN <<owner, pos + k>> ELSE NoCookie]
         : k \in sizes }

\* "success = connection.search(..., paged_size, paged_cookie=cookie)" and
\* "if not success: raise".  A request on a session that is no longer bound fails.
SearchRequest(t) ==
    /\ th[t].pc = "search_request"
    /\ LET c == th[t].conn
       IN \/ /\ c \in bound
             /\ SetTh(t, [pc |-> "search_entries", pages |-> th[t].pages + 1])
             /\ UNCHANGED connection
             /\ \E page \in Pages(t, th[t].cookie, PagedSize(th[t].size_limit, cfg)) :
                 Commit([resp EXCEPT ![c] = page], bound)
          \/ /\ SetTh(t, [pages |-> th[t].pages + 1, rejected |-> TRUE]
                         @@ OnRequestFailure(t))
             /\ UNCHANGED connection
             /\ Commit([resp EXCEPT ![c] = NoResp], bound)
    /\ UNCHANGED <<tool, cfg, lock>>

\* "for entry in connection.entries: ..." on the session's last response.
SearchEntries(t) ==
    /\ th[t].pc = "search_entries"
    /\ LET r == ProcessEntries(th[t].entries, resp[th[t].conn].entries,
                               EffectiveLimit(th[t].size_limit, cfg))
       IN IF r.returned
          THEN SetTh(t, SearchReturns(t, r.entries))
          ELSE SetTh(t, [pc |-> "search_cookie", entries |-> r.entries])
    /\ UNCHANGED <<tool, cfg, connection, lock>>
    /\ Commit(resp, bound)

\* A loop that ends after its first page.
MorePagesNever(cookie) == FALSE

\* "if not cookie: break"
MorePages(cookie) == cookie # NoCookie

\* "cookie = paged_control...get('cookie'); if not cookie: break".
SearchCookie(t) ==
    /\ th[t].pc = "search_cookie"
    /\ LET ck == resp[th[t].conn].cookie
       IN IF ~MorePages(ck)
          THEN SetTh(t, SearchReturns(t, th[t].entries))
          ELSE SetTh(t, [pc |-> "search_request", cookie |-> ck])
    /\ UNCHANGED <<tool, cfg, connection, lock>>
    /\ Commit(resp, bound)

\* ------------------------------------------------------------ specification
Next ==
    \/ \E t \in Threads : CallConnect(t)
    \/ \E t \in Threads : ConnectBegin(t)
    \/ \E t \in Threads : ConnectAttempt(t)
    \/ \E t \in Threads : ConnectExhausted(t)
    \/ \E t \in Threads : ConnectReturn(t)
    \/ \E t \in Threads : CallDisconnect(t)
    \/ \E t \in Threads : DisconnectBegin(t)
    \/ \E t \in Threads : DisconnectBody(t)
    \/ \E t \in Threads : DisconnectReturn(t)
    \/ \E t \in Threads : ScopeEnter(t)
    \/ \E t \in Threads : ScopeExit(t)
    \/ \E t \in Threads : CallSearch(t)
    \/ \E t \in Threads : SearchRequest(t)
    \/ \E t \in Threads : SearchEntries(t)
    \/ \E t \in Threads : SearchCookie(t)
    \/ Drop

Spec == Init /\ [][Next]_vars

SpecSearch == InitSearch /\ [][Next]_vars

SpecConc == InitConc /\ [][Next]_vars

\* ======================================================================
\* Properties of the session manager and the search primitive
\* ======================================================================
Limit(t) == IF th[t].size_limit > 0 THEN th[t].size_limit ELSE cfg.max_results

InConnect(t) == th[t].pc \in {"connecting", "connect_done"}

C2_ConnectIdempotent ==
    \A t \in Threads :
        (th[t].pc = "connect_done" /\ th[t].heldAtCheck # None)
        => /\ ~th[t].raising
           /\ th[t].conn = th[t].heldAtCheck
           /\ connection = th[t].heldAtCheck
           /\ th[t].binds = 0
           /\ th[t].attempt = 0
           /\ th[t].sleeps = 0
           /\ th[t].probes = NoProbes

\* A second connect() call that finds the session of an earlier one.
C2_Witness ==
    \E t \in Threads :
        /\ th[t].pc = "connect_done" /\ th[t].heldAtCheck # None
        /\ th[t].opsLeft <= MaxOps - 2

\* C3: without a bound session connect() makes at most max_retries bind
\* attempts, accepts only an attempt whose probe passed, and sleeps after
\* every failed attempt but the last: k failures then a success give k
\* sleeps, exhaustion gives max_retries - 1 sleeps.
C3_RetryDiscipline ==
    \A t \in Threads :
        InConnect(t) =>
        /\ th[t].binds <= cfg.max_retries
        /\ th[t].attempt <= cfg.max_retries
        /\ th[t].accepted => /\ th[t].probes.last = "records"
                             /\ th[t].sleeps = th[t].attempt
                             /\ th[t].attempt < cfg.max_retries
        /\ th[t].raising => /\ th[t].attempt = cfg.max_retries
                            /\ th[t].sleeps = cfg.max_retries - 1
                            /\ ~th[t].accepted
        /\ (th[t].pc = "connecting" /\ th[t].attempt < cfg.max_retries)
               => th[t].sleeps = th[t].attempt

\* A connect() accepted on its second attempt, after one failure and one sleep.
C3_Witness ==
    \E t \in Threads :
        /\ th[t].pc = "connect_done" /\ th[t].accepted
        /\ th[t].attempt = 1 /\ th[t].sleeps = 1

\* C4 (as stated): when every attempt failed, the error connect() raises
\* wraps the cause of the last failed attempt, and no session is stored.
C4_WrapsLastCause ==
    \A t \in Threads :
        (th[t].pc = "connect_done" /\ th[t].raising)
        => /\ th[t].last_error = th[t].lastCause
           /\ ~(connection # None /\ connection \in bound)

\* The probes the session manager is to run, in order: scope and filter.
C5_ProbeOrder ==
    << [search_scope |-> "BASE", search_filter |-> "(objectClass=*)"],
       [search_scope |-> "SUBTREE", search_filter |-> "(objectClass=*)"],
       [search_scope |-> "SUBTREE", search_filter |-> "(objectClass=person)"] >>

\* C5: after a successful bind the probes run in the order base-scope lookup,
\* subtree existence check, person existence check on the base DN; the first
\* one that succeeds with a record accepts the session and ends the probing;
\* one that errors or finds nothing only moves on; when none finds a record
\* the attempt fails, nothing is stored and the retry loop goes on.
C5_ProbeStrategies ==
    \A t \in Threads :
        InConnect(t) =>
        LET p == th[t].probes
            n == Len(p.tried)
        IN /\ n <= 3
           /\ \A i \in 1..n :
                /\ p.tried[i].search_scope = C5_ProbeOrder[i].search_scope
                /\ p.tried[i].search_filter = C5_ProbeOrder[i].search_filter
                /\ p.tried[i].search_base = "base_dn"
           /\ ~p.passedOver
           /\ th[t].accepted <=> (n >= 1 /\ p.last = "records")
           /\ th[t].accepted => (connection = th[t].conn /\ th[t].pc = "connect_done")
           /\ (n >= 1 /\ ~th[t].accepted)
                => /\ n = 3
                   /\ th[t].lastCause = "probe_failed"
                   /\ th[t].attempt >= 1
                   /\ ~(connection # None /\ connection \in bound)

\* A session accepted by the third strategy after two that found nothing.
C5_Witness ==
    \E t \in Threads :
        /\ th[t].pc = "connect_done" /\ th[t].accepted
        /\ Len(th[t].probes.tried) = 3

\* C6: a rejected page request ends search() at once with the search error:
\* no further page request, no retry, no re-bind, and nothing returned of the
\* records of earlier pages.
C6_SearchFailsFast ==
    \A t \in Threads :
        th[t].rejected
        => /\ th[t].pc = "idle"
           /\ th[t].outcome = "SearchError"
           /\ th[t].result = <<>>

\* A search whose second page request is rejected.
C6_Witness ==
    \E t \in Threads : th[t].rejected /\ th[t].pages >= 2

\* C7: disconnect() never raises; with a session it calls unbind and the
\* connector holds none afterwards even when unbind raised; without a session
\* it calls nothing and changes nothing.
C7_DisconnectNeverFails ==
    \A t \in Threads :
        /\ th[t].pc = "disc_done"
            => /\ connection = None
               /\ ~th[t].raising
               /\ th[t].unbound <=> th[t].hadSession # None
               /\ (th[t].hadSession # None /\ ~th[t].unbindRaised)
                     => th[t].hadSession \notin bound
        /\ th[t].outcome # "UnbindError"

\* A disconnect() whose unbind raised.
C7_Witness ==
    \E t \in Threads :
        th[t].pc = "disc_done" /\ th[t].hadSession # None /\ th[t].unbindRaised

\* C8: leaving a "with connector:" scope, normally or by an exception of the
\* body, calls disconnect() exactly once, and no session is held afterwards.
C8_ScopeReleases ==
    \A t \in Threads :
        /\ (th[t].pc = "disc_done" /\ th[t].op = "exit")
              => (connection = None /\ th[t].scopeDisc = 1)
        /\ th[t].scope = "left" => (th[t].scopeDisc = 1 /\ connection = None)
        /\ th[t].scope = "in" => th[t].scopeDisc = 0

\* The scope of a body that connected and then raised, at the end of __exit__.
C8_Witness ==
    \E t \in Threads :
        /\ th[t].pc = "disc_done" /\ th[t].op = "exit"
        /\ th[t].scopeRaised /\ th[t].hadSession # None

\* An authentication setting no connection can be built for.
BadAuthConfig ==
    \/ cfg.auth_method = "simple" /\ ~cfg.has_credentials
    \/ cfg.auth_method = "sasl"

\* C9 (as stated): with simple authentication lacking bind identity or
\* secret, or with sasl, connect() fails on its first attempt: no further
\* attempt and no retry delay.
C9_ConfigErrorFailsFast ==
    \A t \in Threads :
        (BadAuthConfig /\ InConnect(t))
        => /\ th[t].attempt <= 1
           /\ th[t].sleeps = 0

\* The thread is inside the "with self._lock:" block of connect or disconnect.
InLockedSection(t) ==
    th[t].pc \in {"connecting", "connect_done", "disconnecting", "disc_done"}

\* C10: connect() and disconnect() exclude one another: at most one caller is
\* inside a bind/probe/retry sequence or an unbind, it holds the lock, a
\* session is only ever accepted while the connector holds no bound one, and
\* every connect() returns the session the connector holds as it returns.
C10_MutualExclusion ==
    /\ \A t, u \in Threads : (InLockedSection(t) /\ InLockedSection(u)) => t = u
    /\ \A t \in Threads :
        /\ InLockedSection(t) => lock = t
        /\ ~th[t].replacedBound
        /\ (th[t].pc = "connect_done" /\ ~th[t].raising) => th[t].conn = connection

\* A caller that returns, without binding, the session a concurrent caller
\* has just been given.
C10_Witness ==
    \E t, u \in Threads :
        /\ t # u
        /\ th[t].pc = "connect_done" /\ th[t].fast
        /\ th[u].op = "connect" /\ th[u].outcome = "ok" /\ th[u].ret = th[t].conn
        /\ th[u].scope = "out" /\ th[t].scope = "out"

\* ======================================================================
\* Tool layer: filter construction
\* ======================================================================
\* A string is a sequence of characters.  A run of template text without
\* reserved characters is one element.  Every character carries where it
\* comes from: "t" the template, "q" the caller's fragment, "e" the backslash
\* that re.sub puts in front of a reserved character.
Special == {"*", "(", ")", "\\"}

QueryChars == {"a", "-", " ", "@", "=", ","} \cup Special

RECURSIVE StringsUpTo(_)
StringsUpTo(n) ==
    IF n = 0 THEN {<<>>}
    ELSE LET shorter == StringsUpTo(n - 1)
         IN shorter \cup {Append(q, c) : q \in {x \in shorter : Len(x) = n - 1},
                                         c \in QueryChars}

Queries == StringsUpTo(MaxQueryLen)

\* Text of an f-string template.
T(tokens) == [i \in 1..Len(tokens) |-> [ch |-> tokens[i], src |-> "t"]]

\* Text that comes from the caller's argument.
Q(query) == [i \in 1..Len(query) |-> [ch |-> query[i], src |-> "q"]]

Chars(str) == {str[i].ch : i \in 1..Len(str)}

RECURSIVE Cat(_)
Cat(parts) == IF parts = <<>> THEN <<>> ELSE Head(parts) \o Cat(Tail(parts))

\* An escaping that leaves the text as it is.
EscapeNothing(str) == str

\* re.sub(r"([*()\\])", r"\\\1", str)
RECURSIVE Escape(_)
Escape(str) ==
    IF str = <<>> THEN <<>>
    ELSE LET c == Head(str)
         IN (IF c.ch \in Special THEN <<[ch |-> "\\", src |-> "e"], c>> ELSE <<c>>)
            \o Escape(Tail(str))

\* str.split(): the maximal runs without whitespace.
RECURSIVE Split(_, _)
Split(str, cur) ==
    IF str = <<>> THEN (IF cur = <<>> THEN <<>> ELSE <<cur>>)
    ELSE IF Head(str).ch = " "
         THEN (IF cur = <<>> THEN <<>> ELSE <<cur>>) \o Split(Tail(str), <<>>)
         ELSE Split(Tail(str), Append(cur, Head(str)))

\* query.replace(".", "").replace("-", "").replace("_", "").isalnum()
LooksLikeUid(query) ==
    LET rest == SelectSeq(query, LAMBDA c : c \notin {".", "-", "_"})
    IN rest # <<>> /\ \A i \in 1..Len(rest) : rest[i] = "a"

\* "(attr=*{e}*)"
Contains(attr, e) == Cat(<<T(<<"(", attr, "=", "*">>), e, T(<<"*", ")">>)>>)

\* "(attr={e})"
Equals(attr, e) == Cat(<<T(<<"(", attr, "=">>), e, T(<<")">>)>>)

\* "(objectClass=cls)"
ObjectClass(cls) == T(<<"(", "objectClass", "=", cls, ")">>)

\* "(|" f1 f2 ... ")"
AnyOf(fs) == Cat(<<T(<<"(", "|">>), Cat(fs), T(<<")">>)>>)

\* "(&" f1 f2 ... ")"
AllOf(fs) == Cat(<<T(<<"(", "&">>), Cat(fs), T(<<")">>)>>)

\* The line break and indentation inside a triple-quoted f-string.
Indent == T(<<"\n ">>)

\* PeopleSearchTool._build_search_filter(query)
BuildSearchFilter(query) ==
    LET escaped_query == Escape(Q(query))
        parts == Split(escaped_query, <<>>)
    IN IF "@" \in Chars(Q(query))
       THEN AllOf(<<ObjectClass("person"), Contains("mail", escaped_query)>>)
       ELSE IF " " \notin Chars(Q(query)) /\ LooksLikeUid(query)
       THEN AllOf(<<ObjectClass("person"),
                    AnyOf(<<Contains("uid", escaped_query),
                            Contains("cn", escaped_query)>>)>>)
       ELSE IF Len(parts) = 1
       THEN LET term == parts[1]
            IN AllOf(<<ObjectClass("person"),
                       AnyOf(<<Contains("cn", term), Contains("givenName", term),
                               Contains("sn", term), Contains("uid", term),
                               Contains("mail", term), Contains("title", term),
                               Contains("rhatCostCenterDesc", term)>>)>>)
       ELSE AllOf(<<ObjectClass("person"), Contains("cn", escaped_query)>>)

\* GroupsTool.search_groups: search_filter followed by alt_filters.
GroupSearchFilters(query) ==
    LET escaped_query == Escape(Q(query))
        alt(cls) == AllOf(<<ObjectClass(cls),
                            AnyOf(<<Contains("cn", escaped_query),
                                    Contains("description", escaped_query)>>)>>)
    IN << Cat(<<T(<<"(", "&">>), ObjectClass("group"), Indent,
                T(<<"(", "|">>), Contains("cn", escaped_query), Indent,
                Contains("description", escaped_query), Indent,
                Contains("displayName", escaped_query), T(<<")", ")">>)>>),
          alt("groupOfNames"), alt("groupOfUniqueNames"), alt("posixGroup") >>

\* LocationsTool.find_locations: the filter for an optional query.
FindLocationsFilter(query) ==
    IF query = <<>> THEN ObjectClass("person")
    ELSE LET escaped_query == Escape(Q(query))
         IN AllOf(<<ObjectClass("person"),
                    AnyOf(<<Contains("physicalDeliveryOfficeName", escaped_query),
                            Contains("rhatLocation", escaped_query),
                            Contains("l", escaped_query),
                            Contains("st", escaped_query),
                            Contains("co", escaped_query)>>)>>)

\* LocationsTool.get_people_at_location: the filter for a location name.
PeopleAtLocationFilter(location) ==
    LET escaped_location == Escape(Q(location))
    IN Cat(<<T(<<"(", "&">>), ObjectClass("person"), Indent,
             T(<<"(", "|">>), Contains("physicalDeliveryOfficeName", escaped_location),
             Indent, Contains("rhatLocation", escaped_location),
             Indent, Contains("l", escaped_location), T(<<")", ")">>)>>)

\* "=" in s and "," in s: the argument is taken for a DN.
LooksLikeDN(s) == "=" \in Chars(Q(s)) /\ "," \in Chars(Q(s))

\* PeopleSearchTool.get_person_details: search_filter for an identifier.
PersonDetailsFilter(identifier) ==
    IF "@" \in Chars(Q(identifier)) THEN Equals("mail", Q(identifier))
    ELSE IF LooksLikeDN(identifier) THEN ObjectClass("person")
    ELSE Equals("uid", Q(identifier))

\* PeopleSearchTool.get_person_details: search_base for an identifier, the
\* identifier itself or what _get_people_search_base() returns.
PersonDetailsBase(identifier) ==
    IF LooksLikeDN(identifier) THEN "identifier" ELSE "people_search_base"

\* LDAPConnector.search: search_scope when the caller passes none.
DefaultSearchScope == "SUBTREE"

\* PeopleSearchTool.get_person_details: the scope of its search; the call
\* names search_base, search_filter, attributes and size_limit only.
PersonDetailsScope(identifier) == DefaultSearchScope

\* GroupsTool.get_group_details: search_filter for a group name or DN.
GroupDetailsFilter(group_name) ==
    IF LooksLikeDN(group_name) THEN T(<<"(", "objectClass", "=", "*", ")">>)
    ELSE Equals("cn", Q(group_name))

\* GroupsTool._search_groups_by_member: f"({member_attr}={member_identifier})"
MemberFilter(member_identifier, member_attr) ==
    Equals(member_attr, Q(member_identifier))

MemberAttrs == <<"member", "uniqueMember", "memberUid">>

\* OrganizationTool.find_direct_reports: f"(manager={manager_dn})"
DirectReportsFilter(manager_dn) == Equals("manager", Q(manager_dn))

\* -------------------------------------------------- filter construction runs
\* One call of a function that builds filters, on one argument.
FilterOps ==
    {"_build_search_filter", "search_groups", "find_locations",
     "get_people_at_location", "get_person_details", "get_group_details",
     "_search_groups_by_member", "find_direct_reports"}

\* The connector as the tool layer finds it: configured, not yet connected,
\* no caller inside it.
ToolConfigs ==
    {c \in SearchConfigs : c.page_size = MaxPageSize /\ c.max_results = MaxResultsBound}

InitToolConnector ==
    /\ cfg \in ToolConfigs
    /\ InitConnector
    /\ th = [t \in Threads |-> InitThread(0, 0, 0)]

InitFilter ==
    /\ InitToolConnector
    /\ tool \in [op : FilterOps, arg : Queries, filters : {<<>>},
                 search_base : {"none"}, search_scope : {"none"}, done : {FALSE}]

\* The function tool.op was called for builds its filters.
Built(op, fs) ==
    /\ tool.op = op
    /\ ~tool.done
    /\ tool' = [tool EXCEPT !.filters = fs, !.done = TRUE]
    /\ UNCHANGED <<cfg, connection, lock, bound, resp, th>>

FilterPeopleSearch == Built("_build_search_filter", <<BuildSearchFilter(tool.arg)>>)

FilterSearchGroups == Built("search_groups", GroupSearchFilters(tool.arg))

FilterFindLocations == Built("find_locations", <<FindLocationsFilter(tool.arg)>>)

FilterPeopleAtLocation ==
    Built("get_people_at_location", <<PeopleAtLocationFilter(tool.arg)>>)

FilterPersonDetails ==
    /\ tool.op = "get_person_details"
    /\ ~tool.done
    /\ tool' = [tool EXCEPT !.filters = <<PersonDetailsFilter(tool.arg)>>,
                            !.search_base = PersonDetailsBase(tool.arg),
                            !.search_scope = PersonDetailsScope(tool.arg),
                            !.done = TRUE]
    /\ UNCHANGED <<cfg, connection, lock, bound, resp, th>>

FilterGroupDetails == Built("get_group_details", <<GroupDetailsFilter(tool.arg)>>)

FilterGroupsByMember ==
    Built("_search_groups_by_member",
          [i \in 1..Len(MemberAttrs) |-> MemberFilter(tool.arg, MemberAttrs[i])])

FilterDirectReports == Built("find_direct_reports", <<DirectReportsFilter(tool.arg)>>)

NextFilter ==
    \/ FilterPeopleSearch
    \/ FilterSearchGroups
    \/ FilterFindLocations
    \/ FilterPeopleAtLocation
    \/ FilterPersonDetails
    \/ FilterGroupDetails
    \/ FilterGroupsByMember
    \/ FilterDirectReports

SpecFilter == InitFilter /\ [][NextFilter]_vars

\* A character of the caller's fragment that is reserved and not immediately
\* preceded by an escaping backslash.
Unescaped(f, i) ==
    /\ f[i].src = "q"
    /\ f[i].ch \in Special
    /\ ~(i > 1 /\ f[i - 1] = [ch |-> "\\", src |-> "e"])

FreeTextOps ==
    {"_build_search_filter", "search_groups", "find_locations", "get_people_at_location"}

\* C11: in every filter the people-search, group-search and location builders
\* build from a free-text query, each *, (, ) and \ of the query stands
\* immediately after an escaping backslash.
C11_FreeTextEscaped ==
    (tool.op \in FreeTextOps /\ tool.done)
    => \A k \in 1..Len(tool.filters) :
         \A i \in 1..Len(tool.filters[k]) : ~Unescaped(tool.filters[k], i)

\* A filter built from a query made of a reserved character only, the
\* character present in the filter.
C11_Witness ==
    /\ tool.op \in FreeTextOps /\ tool.done
    /\ Len(tool.arg) >= 1
    /\ \A j \in 1..Len(tool.arg) : tool.arg[j] \in Special
    /\ \E k \in 1..Len(tool.filters) : \E i \in 1..Len(tool.filters[k]) :
         tool.filters[k][i].src = "q" /\ tool.filters[k][i].ch \in Special

\* C12 (as stated): in every filter built from an identifier, a group name, a
\* member identifier or a manager identifier, each *, (, ) and \ of the
\* fragment stands immediately after an escaping backslash.
C12_FragmentsEscaped ==
    (tool.op \in FilterOps \ FreeTextOps /\ tool.done)
    => \A k \in 1..Len(tool.filters) :
         \A i \in 1..Len(tool.filters[k]) : ~Unescaped(tool.filters[k], i)

\* ======================================================================
\* Record normalization
\* ======================================================================
\* Python values of a record: a missing dict key, None, a string (items holds
\* the string), a list of strings, a DN.
Missing == [kind |-> "missing", items |-> <<>>]

NoneV == [kind |-> "none", items |-> <<>>]

Str(s) == [kind |-> "str", items |-> <<s>>]

List(xs) == [kind |-> "list", items |-> xs]

\* An attribute object without a .value: only str() applies to it.
Plain(s) == [kind |-> "plain", items |-> <<s>>]

DnV(dn) == [kind |-> "dn", items |-> dn]

\* bool(v)
Truthy(v) ==
    \/ v.kind = "str" /\ v.items # <<"">>
    \/ v.kind \in {"list", "dn"} /\ v.items # <<>>

\* a or b
PyOr(a, b) == IF Truthy(a) THEN a ELSE b

\* str(v): a string is itself, a list is rendered with its brackets.
PyStr(v) ==
    IF v.kind = "list" THEN [kind |-> "str", items |-> <<"[">> \o v.items \o <<"]">>]
    ELSE [kind |-> "str", items |-> v.items]

\* dict.get(name): None for a missing key.
Get(attrs, name) == IF attrs[name].kind = "missing" THEN NoneV ELSE attrs[name]

\* The attributes PeopleSearchTool._process_person_entry reads.
PersonAttrs ==
    {"uid", "cn", "displayName", "givenName", "sn", "mail", "title",
     "rhatJobTitle", "rhatCostCenterDesc", "manager", "telephoneNumber",
     "mobile", "physicalDeliveryOfficeName", "rhatLocation", "l", "st", "co",
     "employeeNumber", "rhatWorkerId", "employeeType", "rhatPersonType",
     "rhatCostCenter", "rhatBio", "rhatGeo", "rhatOrganization", "rhatJobRole",
     "rhatTeamLead", "rhatOriginalHireDate", "rhatHireDate", "rhatBuildingCode",
     "rhatOfficeLocation"}

\* A test that unwraps the first element of every non-empty list.
IsNonEmptyList(value) == value.kind = "list" /\ Len(value.items) >= 1

\* "isinstance(value, list) and len(value) == 1"
IsSingleton(value) == value.kind = "list" /\ Len(value.items) = 1

\* LDAPConnector._process_entry: the value stored for one attribute.
ProcessValue(attr_value) ==
    LET value == IF attr_value.kind = "plain" THEN PyStr(attr_value) ELSE attr_value
    IN IF IsSingleton(value) THEN Str(value.items[1]) ELSE value

\* LDAPConnector._process_entry(entry)
ProcessEntry(entry) ==
    [dn |-> entry.dn,
     attributes |-> [n \in DOMAIN entry.attributes |->
                        IF entry.attributes[n].kind = "missing" THEN Missing
                        ELSE ProcessValue(entry.attributes[n])]]

\* re.search(r"uid=([^,]+)", dn): the value of the first uid component.  A DN
\* is its sequence of components.
UidOfDn(dn) ==
    LET hits == SelectSeq(dn, LAMBDA rdn : rdn.attr = "uid" /\ rdn.val # "")
    IN IF hits = <<>> THEN NoneV ELSE Str(hits[1].val)

\* PeopleSearchTool._format_date
FormatDate(date_value) ==
    IF date_value = NoneV THEN NoneV
    ELSE IF date_value.kind = "str" THEN date_value
    ELSE PyStr(date_value)

\* PeopleSearchTool._format_value
FormatValue(value) == IF value = NoneV THEN NoneV ELSE PyStr(value)

\* attrs.get("title") or attrs.get("rhatJobTitle")
Title(attrs) == PyOr(Get(attrs, "title"), Get(attrs, "rhatJobTitle"))

\* A clean-up that removes None only.
KeepNotNone(v) == v # NoneV

\* "if v" of the clean-up comprehension.
Keep(v) == Truthy(v)

\* PeopleSearchTool._process_person_entry(entry)
ProcessPersonEntry(entry) ==
    LET dn == entry.dn
        attrs == entry.attributes
        a(n) == Get(attrs, n)
        uid == IF ~Truthy(a("uid")) /\ dn # <<>>
               THEN (IF UidOfDn(dn) # NoneV THEN UidOfDn(dn) ELSE a("uid"))
               ELSE a("uid")
        person ==
            [uid |-> uid,
             dn |-> DnV(dn),
             cn |-> a("cn"),
             display_name |-> a("displayName"),
             given_name |-> a("givenName"),
             surname |-> a("sn"),
             mail |-> a("mail"),
             title |-> Title(attrs),
             department |-> a("rhatCostCenterDesc"),
             manager |-> a("manager"),
             phone |-> a("telephoneNumber"),
             mobile |-> a("mobile"),
             office_location |-> PyOr(PyOr(a("physicalDeliveryOfficeName"),
                                           a("rhatLocation")), a("l")),
             city |-> a("l"),
             state |-> a("st"),
             country |-> a("co"),
             employee_id |-> PyOr(a("employeeNumber"), a("rhatWorkerId")),
             employee_type |-> PyOr(a("employeeType"), a("rhatPersonType")),
             cost_center |-> a("rhatCostCenter"),
             rhat_job_title |-> a("rhatJobTitle"),
             rhat_cost_center |-> a("rhatCostCenter"),
             rhat_cost_center_desc |-> a("rhatCostCenterDesc"),
             rhat_location |-> a("rhatLocation"),
             rhat_bio |-> a("rhatBio"),
             rhat_geo |-> a("rhatGeo"),
             rhat_organization |-> a("rhatOrganization"),
             rhat_job_role |-> a("rhatJobRole"),
             rhat_team_lead |-> a("rhatTeamLead"),
             rhat_original_hire_date |-> FormatDate(a("rhatOriginalHireDate")),
             rhat_hire_date |-> FormatDate(a("rhatHireDate")),
             rhat_worker_id |-> FormatValue(a("rhatWorkerId")),
             rhat_building_code |-> a("rhatBuildingCode"),
             rhat_office_location |-> a("rhatOfficeLocation")]
    IN [k \in {x \in DOMAIN person : Keep(person[x])} |-> person[k]]

\* The attributes each key of the person dict is computed from.
PersonSources ==
    [uid |-> {"uid"}, dn |-> {}, cn |-> {"cn"}, display_name |-> {"displayName"},
     given_name |-> {"givenName"}, surname |-> {"sn"}, mail |-> {"mail"},
     title |-> {"title", "rhatJobTitle"}, department |-> {"rhatCostCenterDesc"},
     manager |-> {"manager"}, phone |-> {"telephoneNumber"}, mobile |-> {"mobile"},
     office_location |-> {"physicalDeliveryOfficeName", "rhatLocation", "l"},
     city |-> {"l"}, state |-> {"st"}, country |-> {"co"},
     employee_id |-> {"employeeNumber", "rhatWorkerId"},
     employee_type |-> {"employeeType", "rhatPersonType"},
     cost_center |-> {"rhatCostCenter"}, rhat_job_title |-> {"rhatJobTitle"},
     rhat_cost_center |-> {"rhatCostCenter"},
     rhat_cost_center_desc |-> {"rhatCostCenterDesc"},
     rhat_location |-> {"rhatLocation"}, rhat_bio |-> {"rhatBio"},
     rhat_geo |-> {"rhatGeo"}, rhat_organization |-> {"rhatOrganization"},
     rhat_job_role |-> {"rhatJobRole"}, rhat_team_lead |-> {"rhatTeamLead"},
     rhat_original_hire_date |-> {"rhatOriginalHireDate"},
     rhat_hire_date |-> {"rhatHireDate"}, rhat_worker_id |-> {"rhatWorkerId"},
     rhat_building_code |-> {"rhatBuildingCode"},
     rhat_office_location |-> {"rhatOfficeLocation"}]

\* ------------------------------------------------------- normalization runs
Elems == {"", "a"}

RECURSIVE ListsUpTo(_)
ListsUpTo(n) ==
    IF n = 0 THEN {<<>>}
    ELSE LET shorter == ListsUpTo(n - 1)
         IN shorter \cup {Append(xs, e) : xs \in {x \in shorter : Len(x) = n - 1},
                                          e \in Elems}

\* What an attribute of a record read from the directory may hold.  ldap3
\* reports an attribute without values as None; a value collection has from
\* one to MaxValues elements.
RawValues ==
    {NoneV} \cup {Str(e) : e \in Elems} \cup {Plain(e) : e \in Elems}
    \cup {List(xs) : xs \in ListsUpTo(MaxValues) \ {<<>>}}

DNs ==
    { <<>>,
      <<[attr |-> "uid", val |-> "a"], [attr |-> "ou", val |-> "users"]>>,
      <<[attr |-> "cn", val |-> "a"], [attr |-> "ou", val |-> "users"]>> }

\* Records that carry the attributes one key of the person dict is computed
\* from, any value each, and no other attribute.
RawEntries ==
    UNION { { [dn |-> d,
               attributes |-> [n \in PersonAttrs |-> IF n \in DOMAIN f THEN f[n]
                                                     ELSE Missing]]
              : f \in [PersonSources[k] -> RawValues \cup {Missing}], d \in DNs }
            : k \in DOMAIN PersonSources }

InitEntry ==
    /\ InitToolConnector
    /\ \E e \in RawEntries :
         tool = [op |-> "normalize", stage |-> "raw", raw |-> e,
                 entry |-> <<>>, person |-> <<>>]

\* search(): entries.append(self._process_entry(entry))
NormalizeEntry ==
    /\ tool.op = "normalize" /\ tool.stage = "raw"
    /\ tool' = [tool EXCEPT !.stage = "entry", !.entry = ProcessEntry(tool.raw)]
    /\ UNCHANGED <<cfg, connection, lock, bound, resp, th>>

\* person = self._process_person_entry(entry)
NormalizePerson ==
    /\ tool.op = "normalize" /\ tool.stage = "entry"
    /\ tool' = [tool EXCEPT !.stage = "person",
                            !.person = ProcessPersonEntry(tool.entry)]
    /\ UNCHANGED <<cfg, connection, lock, bound, resp, th>>

NextEntry == NormalizeEntry \/ NormalizePerson

SpecEntry == InitEntry /\ [][NextEntry]_vars

\* C13: normalization by the search primitive turns an attribute whose value
\* is a one-element collection into that element, keeps a collection of two
\* or more elements as the list of the same elements in the same order, and
\* carries the DN over unchanged.
C13_EntryNormalized ==
    tool.stage \in {"entry", "person"}
    => /\ tool.entry.dn = tool.raw.dn
       /\ \A n \in PersonAttrs :
            LET v == tool.raw.attributes[n]
                w == tool.entry.attributes[n]
            IN /\ (v.kind = "list" /\ Len(v.items) = 1) => w = Str(v.items[1])
               /\ (v.kind = "list" /\ Len(v.items) >= 2) => w = List(v.items)

\* A normalized record with a one-element collection and a collection of two
\* different elements.
C13_Witness ==
    /\ tool.stage = "entry"
    /\ \E n \in PersonAttrs :
         tool.raw.attributes[n].kind = "list" /\ Len(tool.raw.attributes[n].items) = 1
    /\ \E n \in PersonAttrs :
         LET v == tool.raw.attributes[n]
         IN v.kind = "list" /\ Len(v.items) = 2 /\ v.items[1] # v.items[2]

\* C14 (as stated): the Person's title is the extension job-title attribute
\* rhatJobTitle whenever that attribute is there, and the generic title only
\* when it is not; with both, the extension value wins.
C14_ExtensionTitleWins ==
    tool.stage = "person"
    => LET ext == Get(tool.entry.attributes, "rhatJobTitle")
           gen == Get(tool.entry.attributes, "title")
       IN /\ Truthy(ext) => ("title" \in DOMAIN tool.person /\ tool.person.title = ext)
          /\ (~Truthy(ext) /\ Truthy(gen))
               => ("title" \in DOMAIN tool.person /\ tool.person.title = gen)

SearchOutcomes(answer, size_limit) ==
    { [raised |-> TRUE, result |-> <<>>],
      [raised |-> FALSE,
       result |-> ProcessEntries(<<>>, answer, EffectiveLimit(size_limit, cfg)).entries] }

\* The session the connector holds after that call: the bound one it had, or
\* the one connect() has just stored; a call that raised in connect() leaves
\* what there was.
SessionsAfter(raised) ==
    IF AlreadyBound(connection, bound)
    THEN {[connection |-> connection, bound |-> bound]}
    ELSE {[connection |-> NewConn, bound |-> bound \cup {NewConn}]}
         \cup (IF raised THEN {[connection |-> connection, bound |-> bound]} ELSE {})

\* One connector.search call of a tool, with outcome out.
Searched(answer, size_limit, out) ==
    /\ out \in SearchOutcomes(answer, size_limit)
    /\ UNCHANGED <<cfg, lock, th>>
    /\ \E s \in SessionsAfter(out.raised) :
         /\ connection' = s.connection
         /\ Commit(resp, s.bound)

\* max_levels = 10 of get_manager_chain.
max_levels == 10

people_containers == <<"ou=users", "ou=people", "cn=users">>

group_containers == <<"ou=groups", "ou=adhoc,ou=managedGroups", "cn=groups", "ou=group">>

Containers(of) == IF of = "people" THEN people_containers ELSE group_containers

\* ----------------------------------------------------------- the directory
PersonNames == <<"p1", "p2", "p3", "p4", "p5">>

\* Persons of the directory; Nobody names a person the directory lacks.
Persons == 1..MaxPersons

Nobody == MaxPersons + 1

PersonDn(p) == <<[attr |-> "uid", val |-> PersonNames[p]], [attr |-> "ou", val |-> "users"]>>

\* Manager references: 0 for no manager attribute, a person, or Nobody for a
\* DN without entry.
ManagerMaps == [Persons -> 0..Nobody]

\* The record connector.search returns for person p.
PersonRecord(mgr, p) ==
    [dn |-> PersonDn(p),
     attributes |-> [n \in PersonAttrs |->
        IF n \in {"uid", "cn"} THEN Str(PersonNames[p])
        ELSE IF n = "manager" /\ mgr[p] # 0 THEN DnV(PersonDn(mgr[p]))
        ELSE Missing]]

\* An identifier: a uid, a mail address or a DN of person who.
Identifiers == [kind : {"uid", "mail", "dn"}, who : 1..Nobody]

\* The identifier a caller holds in a string: a uid or a DN.
IdOf(v) ==
    IF v.kind = "dn"
    THEN [kind |-> "dn",
          who |-> CHOOSE p \in 1..Nobody : PersonDn(p) = v.items]
    ELSE [kind |-> "uid",
          who |-> CHOOSE p \in 1..Nobody :
                     (p \in Persons /\ Str(PersonNames[p]) = v)
                     \/ (p = Nobody /\ \A q \in Persons : Str(PersonNames[q]) # v)]

\* The records the directory holds for the filter and base of a lookup.
Matches(mgr, id) == IF id.who \in Persons THEN <<PersonRecord(mgr, id.who)>> ELSE <<>>

\* The records whose manager attribute is the DN.
RECURSIVE ReportsFrom(_, _, _)
ReportsFrom(mgr, dn, p) ==
    IF p > MaxPersons THEN <<>>
    ELSE (IF mgr[p] # 0 /\ PersonDn(mgr[p]) = dn THEN <<PersonRecord(mgr, p)>> ELSE <<>>)
         \o ReportsFrom(mgr, dn, p + 1)

\* dict.get(key) of a person dict.
DictGet(d, key) == IF key \in DOMAIN d THEN d[key] ELSE NoneV

\* "not person": None or an empty dict.
NotFound(person) == person = NoneV \/ DOMAIN person = {}

\* ------------------------------------------------ people and organization
\* A call returns v, or raises.
Return(t, v) == [t EXCEPT !.pc = "done", !.outcome = "return", !.result = v]

Raise(t) == [t EXCEPT !.pc = "done", !.outcome = "raise"]

\* Entry of get_person_details(id): the search base is the DN itself for a
\* DN, else _get_people_search_base() probes the containers first.  after
\* names what the caller does with the result.
StartLookup(t, id, after) ==
    [t EXCEPT !.lookup = id, !.after = after, !.probe = 1, !.probeOf = "people",
              !.then = "gpd_search",
              !.pc = IF id.kind = "dn" \/ t.schema_base THEN "gpd_search" ELSE "probe"]

\* The uids of a chain: "{mgr.get("uid") for mgr in chain if mgr.get("uid")}".
ManagerUids(chain) ==
    {DictGet(chain[i], "uid") : i \in {j \in 1..Len(chain) : Truthy(DictGet(chain[j], "uid"))}}

\* The last manager of the chain with one of the uids.
LastIn(chain, uids) ==
    LET hits == {i \in 1..Len(chain) : DictGet(chain[i], "uid") \in uids}
    IN IF hits = {} THEN NoneV ELSE chain[CHOOSE i \in hits : \A j \in hits : j <= i]

\* "for manager in chain1: if manager.get("uid") in common_manager_uids:
\* return manager", and "return None" after the loop.
FirstIn(chain, uids) ==
    LET hits == {i \in 1..Len(chain) : DictGet(chain[i], "uid") \in uids}
    IN IF hits = {} THEN NoneV ELSE chain[CHOOSE i \in hits : \A j \in hits : i <= j]

\* find_common_manager, once it has both chains.
CommonManager(chain1, chain2) ==
    LET common_manager_uids == ManagerUids(chain1) \cap ManagerUids(chain2)
    IN IF chain1 = <<>> \/ chain2 = <<>> THEN NoneV
       ELSE IF common_manager_uids = {} THEN NoneV
       ELSE FirstIn(chain1, common_manager_uids)

\* get_manager_chain returns managers: to its caller, or to
\* find_common_manager, which asks for the chain of its second person and
\* then looks for the common manager.
ChainReturn(t, managers) ==
    IF t.op # "find_common_manager" THEN Return(t, List(managers))
    ELSE IF t.phase = 1
    THEN StartLookup([t EXCEPT !.chain1 = managers, !.phase = 2, !.managers = <<>>,
                               !.iter = 0, !.current = NoneV],
                     t.arg2, "chain_start")
    ELSE Return([t EXCEPT !.chain2 = managers], CommonManager(t.chain1, managers))

\* A loop that goes on as long as there is a manager reference.
LevelsLeftAlways(iter) == TRUE

\* "for _ in range(max_levels)" has an iteration left.
LevelsLeft(iter) == iter < max_levels

\* get_manager_chain: top of a loop iteration.
ChainLoop(t) ==
    LET manager_dn == DictGet(t.current, "manager")
    IN IF ~LevelsLeft(t.iter) THEN ChainReturn(t, t.managers)
       ELSE IF ~Truthy(manager_dn) THEN ChainReturn(t, t.managers)
       ELSE StartLookup([t EXCEPT !.hops = @ + 1], IdOf(manager_dn), "chain_hop")

\* get_manager_chain: rest of the iteration, once the manager is looked up.
ChainHop(t, manager) ==
    LET manager_dn == DictGet(t.current, "manager")
        t2 == [t EXCEPT !.managers = Append(@, manager), !.current = manager]
    IN IF NotFound(manager) THEN ChainReturn(t, t.managers)
       ELSE IF DictGet(manager, "manager") = manager_dn
               \/ ~Truthy(DictGet(manager, "manager"))
       THEN ChainReturn(t2, t2.managers)
       ELSE ChainLoop([t2 EXCEPT !.iter = @ + 1])

\* The chart build_organization_chart returns, as its nodes in depth-first order.
Chart(nodes) == [kind |-> "chart", items |-> nodes]

\* A child that gets the level of its parent.
ChildLevelSame(current_depth) == current_depth

\* "self._build_org_node(report, current_depth + 1, max_depth)"
ChildLevel(current_depth) == current_depth + 1

\* _build_org_node, depth first: the nodes still to visit are in todo, the
\* visited ones in nodes, each with the place of its parent in nodes (0 for
\* the root); a node above max_depth asks for its direct reports.
RECURSIVE ChartNext(_)
ChartNext(t) ==
    IF t.todo = <<>> THEN Return(t, Chart(t.nodes))
    ELSE LET top == Head(t.todo)
             t2 == [t EXCEPT !.todo = Tail(@),
                             !.nodes = Append(@, [uid |-> DictGet(top.person, "uid"),
                                                  level |-> top.level,
                                                  parent |-> top.parent])]
         IN IF top.level < t.max_depth
            THEN StartLookup([t2 EXCEPT !.level = top.level, !.node = Len(t2.nodes)],
                             IdOf(DictGet(top.person, "uid")), "reports_lookup")
            ELSE ChartNext(t2)

\* find_direct_reports, once the manager is looked up.
ReportsLookedUp(t, manager) ==
    IF NotFound(manager) \/ ~Truthy(DictGet(manager, "dn"))
    THEN (IF t.op = "find_direct_reports" THEN Return(t, List(<<>>)) ELSE ChartNext(t))
    ELSE [t EXCEPT !.current = manager, !.probe = 1,
                   !.probeOf = "people", !.then = "reports_search",
                   !.pc = IF t.schema_base THEN "reports_search" ELSE "probe"]

\* ------------------------------------------------------------------ groups
GroupNames == <<"g1", "g2", "g3", "g4">>

Groups == 1..MaxGroups

GroupDn(g) == <<[attr |-> "cn", val |-> GroupNames[g]], [attr |-> "ou", val |-> "groups"]>>

\* The object classes of the filters of search_groups, in the order of
\* "[search_filter] + alt_filters".
template_classes == <<"group", "groupOfNames", "groupOfUniqueNames", "posixGroup">>

\* The object classes of a group that matches the query; none for a group
\* that no filter of search_groups finds.
ClassSets ==
    {{}, {"group"}, {"groupOfNames"}, {"groupOfUniqueNames"}, {"posixGroup"},
     {"group", "posixGroup"}, {"groupOfNames", "groupOfUniqueNames"}}

\* The membership attributes, in the order get_person_groups searches them.
member_attrs == <<"member", "uniqueMember", "memberUid">>

\* What a membership attribute holds for the first person of the directory:
\* their DN, or their uid in memberUid.
MemberRef(attr) ==
    IF attr = "memberUid" THEN Str(PersonNames[1]) ELSE DnV(PersonDn(1))

\* A membership attribute of a group record: not in the record, in it without
\* a value, or naming the first person.
MemberValues(attr) == {Missing, NoneV, MemberRef(attr)}

GroupAttrs ==
    {"cn", "description", "displayName", "member", "uniqueMember", "memberUid",
     "gidNumber"}

\* The record connector.search returns for group g of directory gdir.
GroupRecord(gdir, g) ==
    [dn |-> GroupDn(g),
     attributes |-> [n \in GroupAttrs |->
        IF n = "cn" THEN Str(GroupNames[g])
        ELSE IF n \in {"member", "uniqueMember", "memberUid"} THEN gdir[g][n]
        ELSE Missing]]

\* The records "(member_attr=member_identifier)" finds, from group g on.
RECURSIVE MembersOf(_, _, _, _)
MembersOf(gdir, attr, identifier, g) ==
    IF g > MaxGroups THEN <<>>
    ELSE (IF gdir[g][attr] = identifier THEN <<GroupRecord(gdir, g)>> ELSE <<>>)
         \o MembersOf(gdir, attr, identifier, g + 1)

\* The records the filter for object class cls finds, from group g on.
RECURSIVE OfClass(_, _, _)
OfClass(gdir, cls, g) ==
    IF g > MaxGroups THEN <<>>
    ELSE (IF cls \in gdir[g].classes THEN <<GroupRecord(gdir, g)>> ELSE <<>>)
         \o OfClass(gdir, cls, g + 1)

\* An int.
PyInt(n) == [kind |-> "int", items |-> <<ToString(n)>>]

\* "member_list = attrs.get(member_attr, []); if isinstance(member_list, str):
\* member_list = [member_list]"
MemberList(attrs, member_attr) ==
    LET v == attrs[member_attr]
    IN IF v.kind = "missing" THEN <<>>
       ELSE IF v.kind \in {"str", "dn"} THEN <<v>>
       ELSE v.items

\* GroupsTool._process_group_entry(entry): len(member_list) raises TypeError
\* for an attribute whose value is None.
ProcessGroupEntry(entry) ==
    LET attrs == entry.attributes
        members == MemberList(attrs, "member") \o MemberList(attrs, "uniqueMember")
                   \o MemberList(attrs, "memberUid")
        group == [cn |-> Get(attrs, "cn"),
                  dn |-> DnV(entry.dn),
                  description |-> PyOr(Get(attrs, "description"), Get(attrs, "displayName")),
                  member_count |-> PyInt(Len(members)),
                  members |-> List(SubSeq(members, 1, Min(50, Len(members)))),
                  gid_number |-> Get(attrs, "gidNumber"),
                  object_classes |-> List(<<>>)]
    IN [raised |-> \E i \in 1..3 : attrs[member_attrs[i]].kind = "none",
        group |-> [k \in {x \in DOMAIN group : group[x].kind # "none"} |-> group[k]]]

\* _search_groups_by_member: "for entry in results: ... groups.append(group)".
RECURSIVE ProcessGroupEntries(_, _)
ProcessGroupEntries(groups, results) ==
    IF results = <<>> THEN [raised |-> FALSE, groups |-> groups]
    ELSE LET g == ProcessGroupEntry(Head(results))
         IN IF g.raised THEN [raised |-> TRUE, groups |-> groups]
            ELSE ProcessGroupEntries(Append(groups, g.group), Tail(results))

\* search_groups: "for entry in results: ... if group and not any(g["dn"] ==
\* group["dn"] for g in all_results): all_results.append(group)".
RECURSIVE AppendNew(_, _)
AppendNew(all_results, results) ==
    IF results = <<>> THEN [raised |-> FALSE, all |-> all_results]
    ELSE LET g == ProcessGroupEntry(Head(results))
         IN IF g.raised THEN [raised |-> TRUE, all |-> all_results]
            ELSE AppendNew(IF \E i \in 1..Len(all_results) : all_results[i].dn = g.group.dn
                           THEN all_results ELSE Append(all_results, g.group),
                           Tail(results))

\* get_person_groups: "for group in groups: if group["dn"] not in seen_dns".
RECURSIVE UniqueGroups(_, _)
UniqueGroups(unique_groups, groups) ==
    IF groups = <<>> THEN unique_groups
    ELSE UniqueGroups(IF \E i \in 1..Len(unique_groups) :
                            unique_groups[i].dn = Head(groups).dn
                      THEN unique_groups ELSE Append(unique_groups, Head(groups)),
                      Tail(groups))

\* A search through _get_groups_search_base(): the containers are probed,
\* then the search at pc then is made.
GroupSearchStart(t, then) ==
    [t EXCEPT !.pc = "probe", !.probe = 1, !.probeOf = "groups", !.then = then]

\* get_person_groups, after the i-th membership search: the memberUid search
\* is made for a person with a uid, then the duplicates are removed.
AfterMemberSearch(t) ==
    IF t.msearch = 1
       \/ (t.msearch = 2 /\ Truthy(DictGet(t.current, "uid")))
    THEN GroupSearchStart([t EXCEPT !.msearch = @ + 1], "member_search")
    ELSE Return(t, List(UniqueGroups(<<>>, t.found)))

\* get_person_groups, once the person is looked up.
GroupsOfPerson(t, person) ==
    IF NotFound(person) \/ ~Truthy(DictGet(person, "dn")) THEN Return(t, List(<<>>))
    ELSE GroupSearchStart([t EXCEPT !.current = person, !.msearch = 1], "member_search")

\* "if all_results: break"
StopAfter(all_results) == all_results # <<>>

\* get_group_members: the loops over the member references of the group
\* entry.  member, uniqueMember and memberUid are read in this order, each
\* when its loop begins; iterating over a None value raises, and the outer
\* "except Exception" returns [].  pending holds the references of the
\* attribute under way that are still to be looked up.
RECURSIVE GroupMembersNext(_)
GroupMembersNext(t) ==
    IF t.pending # <<>>
    THEN StartLookup([t EXCEPT !.pending = Tail(@), !.member_ref = Head(t.pending)],
                     IdOf(Head(t.pending)),
                     IF member_attrs[t.member_attr] = "memberUid"
                     THEN "member_uid" ELSE "member_dn")
    ELSE IF t.member_attr >= Len(member_attrs) THEN Return(t, List(t.members))
    ELSE LET attrs == t.group_entry.attributes
             member_attr == member_attrs[t.member_attr + 1]
         IN IF attrs[member_attr].kind = "none"
            THEN Return([t EXCEPT !.failed = TRUE], List(<<>>))
            ELSE GroupMembersNext([t EXCEPT !.member_attr = @ + 1,
                                            !.pending = MemberList(attrs, member_attr)])

\* "any(m.get("uid") == uid for m in members)"
HasUid(members, uid) ==
    \E i \in 1..Len(members) : DictGet(members[i], "uid") = uid

\* get_group_members: a member looked up by DN is appended when found; one
\* looked up by uid is appended when found and no member has that uid.
MemberLookedUp(t, person) ==
    GroupMembersNext(
        IF NotFound(person) THEN t
        ELSE IF t.after = "member_uid" /\ HasUid(t.members, t.member_ref) THEN t
        ELSE [t EXCEPT !.members = Append(@, person)])

\* get_group_members: a member whose lookup raised is left out.
MemberSkipped(t) == GroupMembersNext(t)

\* get_group_members: the DN of the group is known, its entry is searched.
GroupEntryStart(t, group_dn) ==
    [t EXCEPT !.group_dn = group_dn, !.pc = "group_entry_search"]

\* get_group_members, once search_groups(group_name, max_results=1) is back.
GroupNameSearched(t, groups) ==
    IF groups = <<>> THEN Return(t, List(<<>>))
    ELSE GroupEntryStart(t, groups[1].dn)

\* search_groups: "return all_results[:max_results]".
SearchGroupsReturn(t) ==
    LET groups == SubSeq(t.all_results, 1, Min(t.max_results, Len(t.all_results)))
    IN IF t.op = "get_group_members" THEN GroupNameSearched(t, groups)
       ELSE Return(t, List(groups))

\* search_groups: the loop goes to its next filter, or ends.
NextTemplate(t) ==
    IF t.template >= Len(template_classes) THEN SearchGroupsReturn(t)
    ELSE GroupSearchStart([t EXCEPT !.template = @ + 1], "template_search")

\* A lookup that answers a failed search with "not found".
LookupFailureIsAbsence(t) == Return(t, NoneV)

\* get_person_details: "except Exception: ... raise"; only the member loops
\* of get_group_members catch it.
LookupFailure(t) ==
    IF t.after \in {"member_dn", "member_uid"} THEN MemberSkipped(t) ELSE Raise(t)

\* What the caller of get_person_details does with the person it returns.
AfterLookup(t, person) ==
    IF t.after = "gpd" THEN Return(t, person)
    ELSE IF t.after = "chain_start"
    THEN (IF NotFound(person) THEN ChainReturn(t, <<>>)
          ELSE ChainLoop([t EXCEPT !.current = person]))
    ELSE IF t.after = "chain_hop" THEN ChainHop(t, person)
    ELSE IF t.after = "chart_start"
    THEN (IF NotFound(person) THEN Return(t, NoneV)
          ELSE ChartNext([t EXCEPT !.todo = <<[person |-> person, level |-> 0,
                                                parent |-> 0]>>]))
    ELSE IF t.after = "person_groups" THEN GroupsOfPerson(t, person)
    ELSE IF t.after \in {"member_dn", "member_uid"} THEN MemberLookedUp(t, person)
    ELSE ReportsLookedUp(t, person)

OrgOps ==
    {"get_person_details", "get_manager_chain", "build_organization_chart",
     "find_common_manager", "find_direct_reports"}

\* What the caller of the first get_person_details of each function does.
FirstAfter(op) ==
    IF op = "get_person_details" THEN "gpd"
    ELSE IF op = "build_organization_chart" THEN "chart_start"
    ELSE IF op = "find_direct_reports" THEN "reports_lookup"
    ELSE "chain_start"

\* A call of op(arg) on directory mgr, at its entry.  first records how the
\* lookup of arg ends, hops the manager references looked up.
OrgCall(op, arg, arg2, max_depth, mgr, schema_base) ==
    StartLookup([op |-> op, arg |-> arg, arg2 |-> arg2, max_depth |-> max_depth,
                 schema_base |-> schema_base, people_base |-> "none",
                 tried_containers |-> <<>>, resolved |-> FALSE, reprobed |-> FALSE,
                 reports_failed |-> FALSE,
                 mgr |-> mgr, phase |-> 1, chain1 |-> <<>>, chain2 |-> <<>>,
                 pc |-> "start", probe |-> 1, probeOf |-> "people", then |-> "gpd_search",
                 lookup |-> arg, after |-> "gpd", current |-> NoneV,
                 managers |-> <<>>, iter |-> 0, hops |-> 0,
                 todo |-> <<>>, nodes |-> <<>>, level |-> 0, node |-> 0,
                 outcome |-> "none", result |-> NoneV,
                 first |-> [status |-> "none", matched |-> 0]],
                arg, FirstAfter(op))

InitOrg ==
    /\ InitToolConnector
    /\ \E op \in OrgOps, arg, arg2 \in Identifiers, mgr \in ManagerMaps,
          d \in 0..MaxDepth, schema_base \in BOOLEAN :
         /\ op # "build_organization_chart" => d = 0
         /\ IF op = "find_common_manager"
            THEN arg.kind = "dn" /\ arg2.kind = "dn" /\ ~schema_base
            ELSE arg2 = arg
         /\ tool = OrgCall(op, arg, arg2, d, mgr, schema_base)

\* What becomes of the people search base with one container probe: tried
\* are the containers the resolution under way has probed, people_base the
\* base it gives, resolved says a resolution has found a container, reprobed
\* that a container was probed after that.
PeopleProbed(t, found, last) ==
    [t EXCEPT !.tried_containers = (IF t.probe = 1 THEN <<>> ELSE @)
                                   \o <<people_containers[t.probe]>>,
              !.reprobed = @ \/ t.resolved,
              !.resolved = @ \/ found,
              !.people_base = IF found THEN people_containers[t.probe]
                              ELSE IF last THEN "base_dn" ELSE "none"]

\* _get_people_search_base / _get_groups_search_base: one pass of "for
\* container in ...": a one-record existence search; the first container with
\* a record is the base, a failed search is skipped, and after the last
\* container the base DN is used.
BaseProbe ==
    /\ tool.pc = "probe"
    /\ \E exists \in BOOLEAN :
         LET answer == IF exists THEN <<Containers(tool.probeOf)[tool.probe]>> ELSE <<>>
         IN \E out \in SearchOutcomes(answer, 1) :
              /\ Searched(answer, 1, out)
              /\ tool' = LET found == ~out.raised /\ out.result # <<>>
                             last == tool.probe >= Len(Containers(tool.probeOf))
                             t == IF tool.probeOf = "people"
                                  THEN PeopleProbed(tool, found, last) ELSE tool
                         IN IF found \/ last THEN [t EXCEPT !.pc = tool.then]
                            ELSE [t EXCEPT !.probe = @ + 1]

\* get_person_details: the search for one record and what follows from it.
LookupSearch ==
    /\ tool.pc = "gpd_search"
    /\ LET answer == Matches(tool.mgr, tool.lookup)
       IN \E out \in SearchOutcomes(answer, 1) :
            LET t == IF tool.first.status = "none"
                     THEN [tool EXCEPT !.first =
                              [status |-> IF out.raised THEN "failed" ELSE "ok",
                               matched |-> Len(out.result)]]
                     ELSE tool
                person == IF out.result # <<>> THEN ProcessPersonEntry(out.result[1])
                          ELSE NoneV
            IN /\ Searched(answer, 1, out)
               /\ tool' = IF out.raised THEN LookupFailure(t) ELSE AfterLookup(t, person)

\* find_direct_reports: the search for the records whose manager is the DN;
\* a failure counts as no reports ("except Exception: return []") and is
\* noted in reports_failed; the manager's own record is left out.
ReportsSearch ==
    /\ tool.pc = "reports_search"
    /\ LET manager == tool.current
           answer == ReportsFrom(tool.mgr, DictGet(manager, "dn").items, 1)
       IN \E out \in SearchOutcomes(answer, 0) :
            LET persons == [i \in 1..Len(out.result) |-> ProcessPersonEntry(out.result[i])]
                direct_reports ==
                    SelectSeq(persons, LAMBDA x :
                        ~NotFound(x) /\ DictGet(x, "uid") # DictGet(manager, "uid"))
                children == [i \in 1..Len(direct_reports) |->
                                [person |-> direct_reports[i],
                                 level |-> ChildLevel(tool.level), parent |-> tool.node]]
                t == [tool EXCEPT !.reports_failed = @ \/ out.raised]
            IN /\ Searched(answer, 0, out)
               /\ tool' = IF tool.op = "find_direct_reports"
                          THEN Return(t, List(direct_reports))
                          ELSE ChartNext([t EXCEPT !.todo = children \o @])

NextOrg == BaseProbe \/ LookupSearch \/ ReportsSearch

SpecOrg == InitOrg /\ [][NextOrg]_vars

\* The functions run to their end: every search of theirs comes back.
SpecOrgFair == SpecOrg /\ WF_vars(NextOrg)

\* The call is over.
OrgDone == tool.pc = "done"

\* The argument names no record of the directory.
UnknownArg == tool.arg.who = Nobody

SelfManaged == tool.arg.who \in Persons /\ tool.mgr[tool.arg.who] = tool.arg.who

\* C17: get_manager_chain of a person who is their own manager looks up one
\* manager reference and returns an empty chain.
C17_SelfManagedChainEmpty ==
    (OrgDone /\ tool.op = "get_manager_chain" /\ tool.outcome = "return" /\ SelfManaged) =>
        (tool.hops = 1 /\ Len(tool.result.items) = 0)

\* C18: whatever the manager references of the directory, get_manager_chain
\* looks up at most 10 of them, holds at most 10 managers, and ends.
C18_ChainBounded ==
    /\ [](tool.op = "get_manager_chain" =>
            /\ tool.hops <= 10
            /\ Len(tool.managers) <= 10
            /\ (OrgDone /\ tool.outcome = "return") => Len(tool.result.items) <= 10)
    /\ (tool.op = "get_manager_chain" => <>OrgDone)

C18_Witness ==
    /\ OrgDone
    /\ tool.op = "get_manager_chain"
    /\ tool.outcome = "return"
    /\ tool.hops = 10
    /\ Len(tool.result.items) = 10

\* ------------------------------------------- search_groups, get_person_groups
GroupOps == {"search_groups", "get_person_groups"}

\* The directories search_groups is run on: groups of the listed object
\* classes, with a member attribute that may be valueless.
SearchGroupDirs ==
    [Groups -> [classes : ClassSets, member : MemberValues("member"),
                uniqueMember : {Missing}, memberUid : {Missing}]]

\* The directories get_person_groups is run on: any membership attribute of
\* any group may name the first person.
MemberGroupDirs ==
    [Groups -> [classes : {{}}, member : MemberValues("member"),
                uniqueMember : MemberValues("uniqueMember"),
                memberUid : MemberValues("memberUid")]]

\* A call of op on group directory gdir, at its entry.  matched records the
\* DNs the membership searches returned, tried the object classes searched
\* for, searchedAfterYield a search made while all_results held a group,
\* failed a search or a record that raised.
GroupCall(op, arg, max_results, gdir) ==
    LET t == [op |-> op, arg |-> arg, max_results |-> max_results, gdir |-> gdir,
              mgr |-> [p \in Persons |-> 0],
              schema_base |-> FALSE, people_base |-> "none",
              tried_containers |-> <<>>, resolved |-> FALSE, reprobed |-> FALSE,
              pc |-> "start", probe |-> 1, probeOf |-> "groups", then |-> "template_search",
              lookup |-> arg, after |-> "person_groups", current |-> NoneV,
              msearch |-> 0, found |-> <<>>, matched |-> {},
              template |-> 1, all_results |-> <<>>, tried |-> <<>>,
              searchedAfterYield |-> FALSE, failed |-> FALSE,
              group_dn |-> NoneV, group_entry |-> NoneV, member_attr |-> 0,
              pending |-> <<>>, member_ref |-> NoneV, members |-> <<>>,
              outcome |-> "none", result |-> NoneV,
              first |-> [status |-> "none", matched |-> 0]]
    IN IF op = "search_groups" THEN GroupSearchStart(t, "template_search")
       ELSE IF op = "get_person_groups" THEN StartLookup(t, arg, "person_groups")
       ELSE IF arg.kind = "dn" THEN GroupEntryStart(t, DnV(GroupDn(arg.who)))
       ELSE GroupSearchStart(t, "template_search")

InitGroups ==
    /\ InitToolConnector
    /\ \/ \E gdir \in SearchGroupDirs, max_results \in 1..MaxSizeLimit :
            tool = GroupCall("search_groups", [kind |-> "uid", who |-> Nobody],
                             max_results, gdir)
       \/ \E gdir \in MemberGroupDirs, arg \in Identifiers :
            tool = GroupCall("get_person_groups", arg, 0, gdir)

\* _search_groups_by_member(member_identifier, member_attr): the search has
\* no size_limit; a failure of the search or of a record gives [].
MemberSearch ==
    /\ tool.pc = "member_search"
    /\ LET member_attr == member_attrs[tool.msearch]
           member_identifier == DictGet(tool.current,
                                        IF member_attr = "memberUid" THEN "uid" ELSE "dn")
           answer == MembersOf(tool.gdir, member_attr, member_identifier, 1)
       IN \E out \in SearchOutcomes(answer, 0) :
            LET processed == ProcessGroupEntries(<<>>, out.result)
                groups == IF out.raised \/ processed.raised THEN <<>> ELSE processed.groups
            IN /\ Searched(answer, 0, out)
               /\ tool' = AfterMemberSearch(
                     [tool EXCEPT !.found = @ \o groups,
                                  !.matched = @ \cup {DnV(out.result[i].dn) :
                                                        i \in 1..Len(out.result)},
                                  !.failed = @ \/ out.raised \/ processed.raised])

\* search_groups: one pass of "for filter_str in [search_filter] + alt_filters".
TemplateSearch ==
    /\ tool.pc = "template_search"
    /\ LET cls == template_classes[tool.template]
           answer == OfClass(tool.gdir, cls, 1)
       IN \E out \in SearchOutcomes(answer, tool.max_results) :
            LET added == AppendNew(tool.all_results, out.result)
                t == [tool EXCEPT !.tried = Append(@, cls),
                                  !.searchedAfterYield = @ \/ tool.all_results # <<>>,
                                  !.all_results = added.all,
                                  !.failed = @ \/ out.raised \/ added.raised]
            IN /\ Searched(answer, tool.max_results, out)
               /\ tool' = IF out.raised \/ added.raised THEN NextTemplate(t)
                          ELSE IF StopAfter(t.all_results) THEN SearchGroupsReturn(t)
                          ELSE NextTemplate(t)

NextGroups == BaseProbe \/ LookupSearch \/ MemberSearch \/ TemplateSearch

\* ----------------------------------------------------------- group members
\* A group the directory lacks.
NoGroup == MaxGroups + 1

\* What member or uniqueMember of a group entry holds: not in the entry, in
\* it without a value, one DN (a str), or a list of DNs.
MemberDnValues ==
    {Missing, NoneV, DnV(PersonDn(1)), DnV(PersonDn(Nobody)),
     List(<<DnV(PersonDn(1)), DnV(PersonDn(2))>>)}

\* What memberUid of a group entry holds.
MemberUidValues ==
    {Missing, NoneV, Str(PersonNames[1]), Str(PersonNames[Nobody]),
     List(<<Str(PersonNames[1]), Str(PersonNames[2])>>)}

\* The directories get_group_members is run on: the first group has the
\* members, the others have none and match no query.
GroupMemberDirs ==
    {[g \in Groups |-> IF g = 1 THEN first
                       ELSE [classes |-> {}, member |-> Missing,
                             uniqueMember |-> Missing, memberUid |-> Missing]] :
       first \in [classes : {{}, {"group"}, {"posixGroup"}},
                  member : MemberDnValues, uniqueMember : MemberDnValues,
                  memberUid : MemberUidValues]}

\* The group argument: the DN of a group, or a name that search_groups is
\* run on.
GroupArgs == [kind : {"dn"}, who : {1, NoGroup}] \cup [kind : {"name"}, who : {1}]

InitMembers ==
    /\ InitToolConnector
    /\ \E gdir \in GroupMemberDirs, arg \in GroupArgs :
         /\ arg.kind = "dn" => gdir[1].classes = {}
         /\ tool = GroupCall("get_group_members", arg, 1, gdir)

\* The entries a search rooted at group_dn finds.
GroupAt(gdir, group_dn) ==
    LET found == {g \in Groups : GroupDn(g) = group_dn.items}
    IN IF found = {} THEN <<>> ELSE <<GroupRecord(gdir, CHOOSE g \in found : TRUE)>>

\* get_group_members: the search for the entry of the group, size_limit=1;
\* a failed search and a search without entry give [].
GroupEntrySearch ==
    /\ tool.pc = "group_entry_search"
    /\ LET answer == GroupAt(tool.gdir, tool.group_dn)
       IN \E out \in SearchOutcomes(answer, 1) :
            /\ Searched(answer, 1, out)
            /\ tool' = IF out.raised THEN Return([tool EXCEPT !.failed = TRUE], List(<<>>))
                       ELSE IF out.result = <<>> THEN Return(tool, List(<<>>))
                       ELSE GroupMembersNext([tool EXCEPT !.group_entry = out.result[1],
                                                          !.member_attr = 0,
                                                          !.pending = <<>>])

NextMembers == BaseProbe \/ LookupSearch \/ TemplateSearch \/ GroupEntrySearch

SpecMembers == InitMembers /\ [][NextMembers]_vars

SpecGroups == InitGroups /\ [][NextGroups]_vars

\* No two groups of the list have the same DN.
DistinctDns(groups) ==
    \A i, j \in 1..Len(groups) : groups[i].dn = groups[j].dn => i = j

\* C19: get_person_groups returns every group one of its three membership
\* searches returned, and no two groups with the same DN.
C19_GroupsOnce ==
    (tool.op = "get_person_groups" /\ tool.pc = "done" /\ tool.outcome = "return") =>
        /\ \A dn \in tool.matched :
              \E i \in 1..Len(tool.result.items) : tool.result.items[i].dn = dn
        /\ DistinctDns(tool.result.items)

\* Every group of the directory that matches the query is a posixGroup only.
PosixOnly ==
    /\ \A g \in Groups : tool.gdir[g].classes \in {{}, {"posixGroup"}}
    /\ \E g \in Groups : tool.gdir[g].classes = {"posixGroup"}

\* The posixGroup records search_groups is to return, up to max_results.
PosixGroupsExpected ==
    LET found == OfClass(tool.gdir, "posixGroup", 1)
        n == Min(tool.max_results, Len(found))
    IN [i \in 1..n |-> DnV(found[i].dn)]

\* C20: search_groups searches for group, groupOfNames, groupOfUniqueNames
\* and posixGroup in this order, makes no search once a filter has given it a
\* group, returns the posixGroup records of a directory that has no others
\* after three filters without result, and never two groups with one DN.
C20_TemplateCascade ==
    tool.op = "search_groups" =>
        /\ Len(tool.tried) <= Len(template_classes)
        /\ \A i \in 1..Len(tool.tried) : tool.tried[i] = template_classes[i]
        /\ ~tool.searchedAfterYield
        /\ (tool.pc = "done" /\ PosixOnly /\ ~tool.failed) =>
              /\ tool.outcome = "return"
              /\ Len(tool.tried) = 4
              /\ [i \in 1..Len(tool.result.items) |-> tool.result.items[i].dn]
                    = PosixGroupsExpected
        /\ tool.pc = "done" => DistinctDns(tool.result.items)

\* ======================================================================
\* Pagination, and callers that share one session
\* ======================================================================
\* The first n records of the query of caller t, in the directory's order.
FirstRecords(t, n) == [i \in 1..n |-> <<t, i>>]

\* C27: the first page request of a search carries no cursor and every later
\* one the cursor of the response before it; a search that returns below its
\* limit has read a response without cursor; the result is the records of
\* the query in the directory's order, all of them below the limit and the
\* first effective_limit of them otherwise.
C27_Pagination ==
    \A t \in Threads :
        /\ th[t].pc = "search_request" =>
              IF th[t].pages = 0 THEN th[t].cookie = NoCookie
              ELSE /\ th[t].cookie # NoCookie
                   /\ th[t].cookie = resp[th[t].conn].cookie
        /\ (th[t].op = "search" /\ th[t].pc = "idle" /\ th[t].outcome = "ok") =>
              /\ th[t].result = FirstRecords(t, Min(Limit(t), th[t].dirN))
              /\ Len(th[t].result) < Limit(t) =>
                    /\ connection # None
                    /\ resp[connection].cookie = NoCookie

C27_Witness ==
    \E t \in Threads :
        /\ th[t].op = "search"
        /\ th[t].pc = "idle"
        /\ th[t].outcome = "ok"
        /\ th[t].pages >= 2
        /\ Len(th[t].result) = 2
        /\ Len(th[t].result) < Limit(t)

\* C29: whatever two searches on one session do at the same time, the
\* records a search has gathered or returned, and the cursor it holds, come
\* from the responses to its own page requests.
C29_OwnPagesOnly ==
    \A t \in Threads :
        /\ \A i \in 1..Len(th[t].entries) : th[t].entries[i][1] = t
        /\ \A i \in 1..Len(th[t].result) : th[t].result[i][1] = t
        /\ th[t].cookie # NoCookie => th[t].cookie[1] = t

\* C30: a search that holds a session makes each of its page requests while
\* that session is bound; no disconnect() of another caller has unbound it.
C30_RequestsOnBoundSession ==
    \A t \in Threads :
        (th[t].pc = "search_request" /\ th[t].conn # None) =>
            \/ th[t].conn \in bound
            \/ ~\E u \in Threads \ {t} : th[u].op \in {"disconnect", "exit"}
                                          /\ th[u].hadSession = th[t].conn

\* ======================================================================
\* Organization charts, common managers, members of a group
\* ======================================================================
\* C22: the chart of build_organization_chart has the queried manager at
\* level 0 as its root, every other node one level below its parent and none
\* below max_depth, the root alone for max_depth 0; and the function ends,
\* whatever the manager references of the directory.
C22_ChartDepthBounded ==
    /\ [](tool.op = "build_organization_chart" =>
            /\ \A i \in 1..Len(tool.nodes) :
                  /\ tool.nodes[i].level <= tool.max_depth
                  /\ IF tool.nodes[i].parent = 0
                     THEN i = 1 /\ tool.nodes[i].level = 0
                     ELSE /\ tool.nodes[i].parent < i
                          /\ tool.nodes[i].level = tool.nodes[tool.nodes[i].parent].level + 1
            /\ (OrgDone /\ tool.outcome = "return" /\ tool.result # NoneV) =>
                  /\ tool.result.items = tool.nodes
                  /\ tool.nodes # <<>>
                  /\ tool.nodes[1].uid = Str(PersonNames[tool.arg.who])
                  /\ tool.max_depth = 0 => Len(tool.nodes) = 1)
    /\ (tool.op = "build_organization_chart" => <>OrgDone)

\* A chart of depth 2 on a cycle of managers: a person is in it twice.
C22_Witness ==
    /\ OrgDone
    /\ tool.op = "build_organization_chart"
    /\ tool.outcome = "return"
    /\ tool.result # NoneV
    /\ \E i, j \in 1..Len(tool.nodes) :
          /\ i < j
          /\ tool.nodes[i].uid = tool.nodes[j].uid
          /\ tool.nodes[j].level = tool.max_depth

\* find_common_manager has returned.
CommonDone == OrgDone /\ tool.op = "find_common_manager" /\ tool.outcome = "return"

\* C23: find_common_manager returns the first manager of the first person's
\* chain whose uid is the uid of a manager of the second person's chain, and
\* None when a chain is empty or there is no such manager.
C23_FirstCommonManager ==
    CommonDone =>
        LET shared == {i \in 1..Len(tool.chain1) :
                          \E j \in 1..Len(tool.chain2) :
                              tool.chain1[i].uid = tool.chain2[j].uid}
        IN IF shared = {} THEN tool.result = NoneV
           ELSE /\ tool.result # NoneV
                /\ \E i \in shared : /\ tool.result = tool.chain1[i]
                                     /\ \A k \in shared : i <= k

\* Two managers are common to both chains, the first of them is returned.
C23_Witness ==
    /\ CommonDone
    /\ Len(tool.chain1) >= 2
    /\ tool.result = tool.chain1[1]
    /\ tool.chain1[2].uid # tool.chain1[1].uid
    /\ \E j \in 1..Len(tool.chain2) : tool.chain1[2].uid = tool.chain2[j].uid

\* C28: on the directory alice -> bob -> carol -> bob, get_manager_chain of
\* alice returns bob and carol and nobody else.
C28_CycleStopsAtRevisit ==
    (OrgDone /\ tool.op = "get_manager_chain" /\ tool.outcome = "return"
       /\ tool.arg.who = 1 /\ tool.mgr = <<2, 3, 2>>) =>
        [i \in 1..Len(tool.result.items) |-> tool.result.items[i].uid]
            = <<Str(PersonNames[2]), Str(PersonNames[3])>>

\* C26: a people search base of the schema configuration is used without a
\* container probe; else the containers are probed in order, the base
\* location is used when none has a record, and once a container has been
\* found no operation probes a container again.
C26_PeopleBaseCached ==
    tool.op \in OrgOps =>
        /\ tool.schema_base => tool.tried_containers = <<>>
        /\ Len(tool.tried_containers) <= Len(people_containers)
        /\ \A i \in 1..Len(tool.tried_containers) :
              tool.tried_containers[i] = people_containers[i]
        /\ tool.people_base = "base_dn" => tool.tried_containers = people_containers
        /\ tool.people_base \notin {"none", "base_dn"} =>
              tool.people_base = tool.tried_containers[Len(tool.tried_containers)]
        /\ ~tool.reprobed

\* C25: get_person_details looks a DN-shaped identifier up with a base-scope
\* search rooted at the identifier and an existence filter; an identifier
\* with "@" is looked up by mail equality and any other one by uid equality,
\* both under the people search base.
C25_IdentifierResolution ==
    (tool.op = "get_person_details" /\ tool.done) =>
        IF LooksLikeDN(tool.arg)
        THEN /\ tool.search_base = "identifier"
             /\ tool.search_scope = "BASE"
             /\ tool.filters[1] \in {ObjectClass("*"), ObjectClass("person")}
        ELSE /\ tool.search_base = "people_search_base"
             /\ tool.filters[1] = IF "@" \in Chars(Q(tool.arg))
                                  THEN Equals("mail", Q(tool.arg))
                                  ELSE Equals("uid", Q(tool.arg))

\* C24: a failure of the search for the direct reports reaches the caller of
\* find_direct_reports as an error, never as a list.
C24_SearchFailureRaised ==
    (OrgDone /\ tool.op = "find_direct_reports" /\ tool.reports_failed) =>
        tool.outcome = "raise"

\* The uids of the persons of a list are pairwise different.
DistinctUids(persons) ==
    \A i, j \in 1..Len(persons) :
        DictGet(persons[i], "uid") = DictGet(persons[j], "uid") => i = j

\* C21: no two persons of the list get_group_members returns have the same
\* uid, whichever of member, uniqueMember and memberUid name them.
C21_MembersDistinct ==
    (tool.op = "get_group_members" /\ tool.pc = "done" /\ tool.outcome = "return") =>
        DistinctUids(tool.result.items)

====
